---- MODULE Spec2Model ----
(***************************************************************************)
(* Retrieval-augmented translation relay (Mon translator server).          *)
(*                                                                         *)
(* Nine specifications share this module:                                  *)
(*   SpecRank - the ranking section of the /api/translate handler (score,  *)
(*              sort, slice, filter) applied to bounded inputs;            *)
(*   Spec     - the server: approved store, one /api/translate request     *)
(*              and the /api/reindex-suggestions sweep, all inputs;        *)
(*   SpecLive - one /api/translate request whose awaited calls each        *)
(*              return or raise in the end (weak fairness);                *)
(*   SpecRace - the server with two concurrent requests and the sweep      *)
(*              embedding the same records;                                *)
(*   SpecInv  - the client-side invoker sendMessageToGemini;               *)
(*   SpecFlow - /api/suggest and /api/approve-suggestion of the part_000   *)
(*              build next to one /api/translate request;                  *)
(*   SpecFlowRace - concurrent calls of /api/approve-suggestion;           *)
(*   SpecPrompt - the assembly of the instruction text by each handler;    *)
(*   SpecCos  - cosineSimilarity on its own, in floating point.            *)
(*                                                                         *)
(* Numbers.  In the server specifications embeddings are integer vectors   *)
(* whose Euclidean norm is an integer, so Math.sqrt is exact on them; a    *)
(* cosine score is kept as the exact fraction [n, d] (d > 0) and compared  *)
(* by cross multiplication.  On these inputs IEEE doubles order and equate *)
(* the quotients exactly as the fractions do.  SpecCos takes vectors of    *)
(* any norm and rounds every operation as IEEE 754 does.                   *)
(***************************************************************************)
EXTENDS Integers, Sequences, FiniteSets, TLC

VARIABLES rk_pc, rk_query, rk_approved, rk_K, rk_min, rk_scored, rk_sorted, rk_topK

rankVars == <<rk_pc, rk_query, rk_approved, rk_K, rk_min, rk_scored, rk_sorted, rk_topK>>

VARIABLES inv_build, inv_pc, inv_i, inv_calls, inv_result, inv_error

invVars == <<inv_build, inv_pc, inv_i, inv_calls, inv_result, inv_error>>

VARIABLES build, store, req, rx, faults

sysVars == <<build, store, req, rx, faults>>

VARIABLES pending, sub, ap, now, promoted

flowVars == <<pending, sub, ap, now, promoted>>

VARIABLES pr_pc, pr_build, pr_topK, pr_vocabulary, pr_instruction

promptVars == <<pr_pc, pr_build, pr_topK, pr_vocabulary, pr_instruction>>

VARIABLES cs_pc, cs_a, cs_b, cs_out

cosVars == <<cs_pc, cs_a, cs_b, cs_out>>

auxVars == <<flowVars, promptVars, cosVars>>

vars == <<rankVars, invVars, sysVars, auxVars>>

(***************************************************************************)
(* Bounds                                                                  *)
(***************************************************************************)
\* longest list of approved records handed to the ranking section
MaxApproved == 6
\* largest K tried by the parameterised retrieve
MaxK == 6
\* most approved records in the store of the server specification
MaxDocs == 2
\* most embed and store calls that fail in one behaviour of the server
MaxFaults == 1

\* calls of /api/suggest and of /api/approve-suggestion served in a run
MaxSubmits == 2
MaxApproves == 2

\* longest lists of ranked examples and of vocabulary items assembled
MaxExamples == 2
MaxVocabulary == 2

\* longest vector and largest component handed to cosineSimilarity on its own
MaxDim == 2
MaxEntry == 3

(***************************************************************************)
(* Program constants                                                       *)
(***************************************************************************)
\* const K = 5
TopK == 5
\* .filter((x) => x.score > 0.3)
MinScore == [n |-> 3, d |-> 10]

Null == "null"
\* null where a vector is expected
NullVec == <<"null">>

(***************************************************************************)
(* External embed model: a function of the text (spec 5, 6).  The real     *)
(* vectors have 256 components; four are enough to realise the scores the  *)
(* claims speak about: against "q", "a" scores 0.9, "b" 0.2, "c" 0.8 and   *)
(* "t" exactly 0.3.                                                        *)
(***************************************************************************)
EmbedValues(text) ==
  CASE text = "q" -> <<1, 0, 0, 0>>
    [] text = "a" -> <<9, 1, 3, 3>>
    [] text = "b" -> <<1, 2, 2, 4>>
    [] text = "c" -> <<4, 3, 0, 0>>
    [] text = "t" -> <<3, 9, 3, 1>>
    [] OTHER      -> <<0, 0, 0, 0>>

(***************************************************************************)
(* 4. Helper: Embeddings + cosine similarity                               *)
(***************************************************************************)
Min2(x, y) == IF x < y THEN x ELSE y

RECURSIVE DotLoop(_, _, _, _, _)
DotLoop(a, b, i, len, s) ==
  IF i > len THEN s ELSE DotLoop(a, b, i + 1, len, s + a[i] * b[i])

dot(a, b) == DotLoop(a, b, 1, Min2(Len(a), Len(b)), 0)

RECURSIVE SumSquares(_, _, _)
SumSquares(v, i, s) ==
  IF i > Len(v) THEN s ELSE SumSquares(v, i + 1, s + v[i] * v[i])

\* Math.sqrt, exact: the vectors of the model have integer norms
Sqrt(n) == CHOOSE r \in 0..n : r * r = n

magnitude(v) == Sqrt(SumSquares(v, 1, 0))

Frac(n, d) == [n |-> n, d |-> d]

cosineSimilarity(a, b) ==
  LET ma == magnitude(a)
      mb == magnitude(b)
  IN  IF ma = 0 \/ mb = 0 THEN Frac(0, 1) ELSE Frac(dot(a, b), ma * mb)

\* x > y on scores
ScoreGT(x, y) == x.n * y.d > y.n * x.d
ScoreEQ(x, y) == x.n * y.d = y.n * x.d

(***************************************************************************)
(* 7. Ranking section of the translate handler                             *)
(***************************************************************************)
\* approved.map((item) => ({...item, score: cosineSimilarity(q, item.embedding)}))
ScoreItems(q, approved) ==
  [i \in 1..Len(approved) |->
     [f \in DOMAIN approved[i] \cup {"score"} |->
        IF f = "score" THEN cosineSimilarity(q, approved[i].embedding)
        ELSE approved[i][f]]]

\* the comparator of an ascending sort: a.score - b.score
Compare_Ascending(a, b) == a.score.n * b.score.d - b.score.n * a.score.d

\* (a, b) => b.score - a.score : negative when a must come first
Compare(a, b) == b.score.n * a.score.d - a.score.n * b.score.d

\* an unstable insertion: x also overtakes records of equal score
RECURSIVE InsertSorted_Unstable(_, _)
InsertSorted_Unstable(x, s) ==
  IF s = <<>> THEN <<x>>
  ELSE IF Compare(x, Head(s)) <= 0 THEN <<x>> \o s
  ELSE <<Head(s)>> \o InsertSorted_Unstable(x, Tail(s))

\* stable insertion: x goes before the first y that must come after it
RECURSIVE InsertSorted(_, _)
InsertSorted(x, s) ==
  IF s = <<>> THEN <<x>>
  ELSE IF Compare(x, Head(s)) < 0 THEN <<x>> \o s
  ELSE <<Head(s)>> \o InsertSorted(x, Tail(s))

RECURSIVE SortFrom(_, _, _)
SortFrom(s, i, acc) ==
  IF i > Len(s) THEN acc ELSE SortFrom(s, i + 1, InsertSorted(s[i], acc))

\* the sort left out: the list stays in store order
SortScored_StoreOrder(s) == s

\* scored.sort((a, b) => b.score - a.score)
SortScored(s) == SortFrom(s, 1, <<>>)

\* slice(0, K + 1)
Slice_OffByOne(s, k) == SubSeq(s, 1, Min2(k + 1, Len(s)))

\* scored.slice(0, K)
Slice(s, k) == SubSeq(s, 1, Min2(k, Len(s)))

\* x.score >= minScore
FilterAbove_AtLeast(s, min) == SelectSeq(s, LAMBDA x : ~ScoreGT(min, x.score))

\* .filter((x) => x.score > minScore)
FilterAbove(s, min) == SelectSeq(s, LAMBDA x : ScoreGT(x.score, min))

SelectTopK(sorted, k, min) == FilterAbove(Slice(sorted, k), min)

(***************************************************************************)
(* SpecRank: the ranking section on bounded inputs                         *)
(***************************************************************************)
RankTexts == {"a", "b", "c", "t"}
RankQueries == {"q", "c"}
RankMins == {MinScore, Frac(1, 2)}

MkApproved(texts) ==
  [i \in 1..Len(texts) |->
     [id |-> i, original |-> texts[i], embedding |-> EmbedValues(texts[i])]]

SeqsUpTo(S, n) == UNION {[1..m -> S] : m \in 0..n}

\* the suggestion routes are not served
FlowIdle ==
  /\ pending = <<>>
  /\ sub = <<>>
  /\ ap = <<>>
  /\ now = 0
  /\ promoted = {}

\* no instruction is being assembled on its own
PromptIdle ==
  /\ pr_pc = "off"
  /\ pr_build = "none"
  /\ pr_topK = <<>>
  /\ pr_vocabulary = <<>>
  /\ pr_instruction = <<>>

\* cosineSimilarity is not running on its own
CosIdle ==
  /\ cs_pc = "off"
  /\ cs_a = <<>>
  /\ cs_b = <<>>
  /\ cs_out = <<>>

AuxIdle == FlowIdle /\ PromptIdle /\ CosIdle

\* the server is not running
SysIdle ==
  /\ build = "none"
  /\ store = <<>>
  /\ req = <<>>
  /\ rx = <<>>
  /\ faults = 0

\* the invoker is not running
InvIdle ==
  /\ inv_build = "none"
  /\ inv_pc = "idle"
  /\ inv_i = 0
  /\ inv_calls = <<>>
  /\ inv_result = Null
  /\ inv_error = Null

RankInit ==
  /\ InvIdle
  /\ SysIdle
  /\ AuxIdle
  /\ rk_pc = "score"
  /\ rk_query \in {EmbedValues(t) : t \in RankQueries}
  /\ rk_approved \in {MkApproved(ts) : ts \in SeqsUpTo(RankTexts, MaxApproved)}
  /\ rk_K = TopK
  /\ rk_min = MinScore
  /\ rk_scored = <<>>
  /\ rk_sorted = <<>>
  /\ rk_topK = <<>>

RankScore ==
  /\ rk_pc = "score"
  /\ rk_scored' = ScoreItems(rk_query, rk_approved)
  /\ rk_pc' = "sort"
  /\ UNCHANGED <<rk_query, rk_approved, rk_K, rk_min, rk_sorted, rk_topK>>
  /\ UNCHANGED <<invVars, sysVars, auxVars>>

RankSort ==
  /\ rk_pc = "sort"
  /\ rk_sorted' = SortScored(rk_scored)
  /\ rk_pc' = "select"
  /\ UNCHANGED <<rk_query, rk_approved, rk_K, rk_min, rk_scored, rk_topK>>
  /\ UNCHANGED <<invVars, sysVars, auxVars>>

\* retrieve(queryVector, K, minScore); the handler calls it with (5, 0.3)
RankSelect(k, min) ==
  /\ rk_pc = "select"
  /\ rk_K' = k
  /\ rk_min' = min
  /\ rk_topK' = SelectTopK(rk_sorted, k, min)
  /\ rk_pc' = "done"
  /\ UNCHANGED <<rk_query, rk_approved, rk_scored, rk_sorted>>
  /\ UNCHANGED <<invVars, sysVars, auxVars>>

RankNext ==
  \/ RankScore
  \/ RankSort
  \/ \E k \in 0..MaxK, min \in RankMins : RankSelect(k, min)

SpecRank == RankInit /\ [][RankNext]_vars

(***************************************************************************)
(* Model output texts and JSON.parse.  A parsed object is a function from  *)
(* its field names to strings.                                             *)
(***************************************************************************)
JsonEn == "{\"source_language\":\"English\",\"translation\":\"T1\"}"
JsonBare == "{}"
\* the same object behind a byte order mark, which trim() removes and
\* JSON.parse rejects
BomJsonEn == "BOM{\"source_language\":\"English\",\"translation\":\"T1\"}"
NotJson == "not json"
Blank == "  "

GenTexts == {"", Blank, NotJson, JsonEn, JsonBare, BomJsonEn}

\* String.prototype.trim
Trim(text) ==
  CASE text = BomJsonEn -> JsonEn
    [] text = Blank     -> ""
    [] OTHER            -> text

ParsedEn == [source_language |-> "English", translation |-> "T1"]

\* JSON.parse: [ok, value]; ok = FALSE stands for the SyntaxError
JSONParse(text) ==
  CASE text = JsonEn   -> [ok |-> TRUE, value |-> ParsedEn]
    [] text = JsonBare -> [ok |-> TRUE, value |-> <<>>]
    [] OTHER           -> [ok |-> FALSE, value |-> Null]

(***************************************************************************)
(* sendMessageToGemini: ordered fallback over modelsToTry                  *)
(***************************************************************************)
InvBuilds == {"server.js", "part_001"}

modelsToTry(b) ==
  IF b = "server.js"
  THEN <<"gemini-2.5-pro", "gemini-2.5-flash">>
  ELSE <<"gemini-3-pro-preview", "gemini-3-pro", "gemini-2.5-pro">>

Unavailable == "Translation service is currently unavailable. Please try again later."

\* return JSON.parse(text.trim()) in server.js, JSON.parse(text) in part_001
tryModelParse(b, text) ==
  IF b = "server.js" THEN JSONParse(Trim(text)) ELSE JSONParse(text)

\* the catch rethrows: the first failing model ends the invocation
AfterFailure_Rethrow(i, n) == "thrown"

\* a failed attempt ends the invocation as if it had returned
AfterFailure_Return(i, n) == "returned"

\* catch (error) { console.warn(...) }: next model, or the throw after the loop
AfterFailure(i, n) == IF i < n THEN "try" ELSE "thrown"

\* the ranking section is not running on its own
RankIdle ==
  /\ rk_pc = "off"
  /\ rk_query = <<>>
  /\ rk_approved = <<>>
  /\ rk_K = TopK
  /\ rk_min = MinScore
  /\ rk_scored = <<>>
  /\ rk_sorted = <<>>
  /\ rk_topK = <<>>

InvInit ==
  /\ RankIdle
  /\ SysIdle
  /\ AuxIdle
  /\ inv_build \in InvBuilds
  /\ inv_pc = "try"
  /\ inv_i = 1
  /\ inv_calls = <<>>
  /\ inv_result = Null
  /\ inv_error = Null

InvFail(call) ==
  LET n == Len(modelsToTry(inv_build))
  IN  /\ inv_calls' = Append(inv_calls, call)
      /\ inv_pc' = AfterFailure(inv_i, n)
      /\ inv_i' = inv_i + 1
      /\ inv_error' = IF AfterFailure(inv_i, n) = "thrown" THEN Unavailable ELSE Null
      /\ UNCHANGED <<inv_build, inv_result>>

\* ai.models.generateContent rejects
InvModelRaises ==
  /\ inv_pc = "try"
  /\ InvFail([model |-> modelsToTry(inv_build)[inv_i], outcome |-> "raise", text |-> Null])
  /\ UNCHANGED <<rankVars, sysVars, auxVars>>

\* ai.models.generateContent resolves with response.text = text
InvModelReturns(text) ==
  /\ inv_pc = "try"
  /\ LET call == [model |-> modelsToTry(inv_build)[inv_i], outcome |-> "text", text |-> text]
         parsed == tryModelParse(inv_build, text)
     IN  IF text = "" \/ ~parsed.ok
         THEN InvFail(call)
         ELSE /\ inv_calls' = Append(inv_calls, call)
              /\ inv_pc' = "returned"
              /\ inv_result' = parsed.value
              /\ UNCHANGED <<inv_build, inv_i, inv_error>>
  /\ UNCHANGED <<rankVars, sysVars, auxVars>>

InvNext ==
  \/ InvModelRaises
  \/ \E text \in GenTexts : InvModelReturns(text)

SpecInv == InvInit /\ [][InvNext]_vars

(***************************************************************************)
(* Spec: the server.  Two builds of the server file are modelled: the one  *)
(* of server.js and the later copy in part_000 (lines 432-703); `build`    *)
(* says which one runs.  A handler runs from one await of an external call *)
(* (embed model, store, generate model) to the next in one step.           *)
(***************************************************************************)
Builds == {"server.js", "part_000"}

\* /api/translate requests, in the order they arrive
ReqOrder == <<"r1", "r2">>
Reqs == {ReqOrder[i] : i \in 1..Len(ReqOrder)}

Messages == {"", Blank, "q"}

\* approved documents the store may hold when the server starts
NewDocs ==
  { [original |-> "a", suggestion |-> "sa", embedding |-> NullVec],
    [original |-> "c", suggestion |-> "sc", embedding |-> NullVec],
    [original |-> "c", suggestion |-> "sc", embedding |-> EmbedValues("c")],
    [original |-> Blank, suggestion |-> "sw", embedding |-> NullVec],
    [original |-> "a", suggestion |-> "", embedding |-> NullVec],
    [original |-> "", suggestion |-> "sa", embedding |-> NullVec] }

MkStore(docs) ==
  [i \in 1..Len(docs) |->
     [id |-> i, original |-> docs[i].original, suggestion |-> docs[i].suggestion,
      embedding |-> docs[i].embedding]]

Resp(status, body, cause) == [status |-> status, body |-> body, cause |-> cause]

\* nothing sent yet
NoResponse == Resp(0, <<>>, "none")

(***************************************************************************)
(* Instruction text.  A text is the sequence of its parts, += is \o: the   *)
(* base instruction, a section header, one numbered line per item.         *)
(***************************************************************************)
Part(kind, n, original, suggestion, context) ==
  [kind |-> kind, n |-> n, original |-> original, suggestion |-> suggestion,
   context |-> context]

\* BASE_SYSTEM_INSTRUCTION
BaseInstruction == <<Part("base", 0, "", "", "")>>

\* context = "" of the destructuring, for a document without the field
ContextOf(item) == IF "context" \in DOMAIN item THEN item.context ELSE ""

\* the line of one example: server.js appends " Context: ..." when the
\* context is not empty, the part_000 build never prints the context
ExampleLine(b, item, n) ==
  Part("example", n, item.original, item.suggestion,
       IF b = "server.js" THEN ContextOf(item) ELSE "")

\* "### RELEVANT USER-APPROVED EXAMPLES:" / "### RELEVANT USER EXAMPLES:"
ExamplesHeader(b) ==
  Part(IF b = "server.js" THEN "examplesHeaderApproved" ELSE "examplesHeader",
       0, "", "", "")

\* the section is written even without examples
relevantExamplesText_Headed(b, topK) ==
  <<ExamplesHeader(b)>> \o [n \in 1..Len(topK) |-> ExampleLine(b, topK[n], n)]

\* if (topK.length > 0) { header; topK.forEach(line) }
relevantExamplesText(b, topK) ==
  IF Len(topK) > 0
  THEN <<ExamplesHeader(b)>> \o [n \in 1..Len(topK) |-> ExampleLine(b, topK[n], n)]
  ELSE <<>>

\* const finalInstruction = BASE_SYSTEM_INSTRUCTION + relevantExamplesText
finalInstruction(b, topK) == BaseInstruction \o relevantExamplesText(b, topK)

\* one entry of a request's log: an external call that completed (ok says
\* whether it resolved or rejected), or the scoring of the candidates
Call(op, id, ok) == [op |-> op, id |-> id, ok |-> ok]

Logged(rq, op, id, ok) == [rq EXCEPT !.calls = Append(@, Call(op, id, ok))]

ReqIdle ==
  [pc |-> "idle", message |-> Null, q |-> NullVec, snap |-> <<>>, idx |-> 0,
   emb |-> NullVec, approved |-> <<>>, fate |-> <<>>, topK |-> <<>>,
   instruction |-> <<>>, calls |-> <<>>, response |-> NoResponse]

RxIdle ==
  [pc |-> "idle", snap |-> <<>>, idx |-> 0, emb |-> NullVec, updatedCount |-> 0,
   response |-> NoResponse]

Init ==
  /\ RankIdle
  /\ InvIdle
  /\ AuxIdle
  /\ build \in Builds
  /\ store \in {MkStore(ds) : ds \in SeqsUpTo(NewDocs, MaxDocs) \ {<<>>}}
  /\ req = [r \in Reqs |-> ReqIdle]
  /\ rx = RxIdle
  /\ faults = 0

\* if (!text || !text.trim()) return null : no call to the embed model
EmbedSkipped(text) == text = "" \/ Trim(text) = ""

\* every record is taken to lack its embedding
LacksEmbedding_Always(e) == TRUE

\* if (!embedding || !Array.isArray(embedding) || embedding.length === 0)
LacksEmbedding(e) == e = NullVec \/ e = <<>>

Item(d, e) ==
  [id |-> d.id, original |-> d.original, suggestion |-> d.suggestion, embedding |-> e]

\* the part_000 build has no "if (!embedding) continue" before the push
PushesNull(b) == b = "part_000"

\* a record whose embedText gave null: skipped, or pushed with embedding null
AfterNull(b, sugg, d) == IF PushesNull(b) THEN Append(sugg, Item(d, NullVec)) ELSE sugg

\* only a missing original drops the record
Malformed_OriginalOnly(d) == d.original = ""

\* if (!original || !suggestion) continue
Malformed(d) == d.original = "" \/ d.suggestion = ""

(***************************************************************************)
(* getApprovedSuggestionsWithEmbeddings: the for loop from document i up   *)
(* to the next call of the embed model, or to the end of the snapshot.     *)
(* fate records what happened to each document of the snapshot.            *)
(***************************************************************************)
RECURSIVE LoopFrom(_, _, _, _, _)
LoopFrom(b, snap, i, sugg, fate) ==
  IF i > Len(snap) THEN [pc |-> "end", idx |-> i, sugg |-> sugg, fate |-> fate]
  ELSE IF Malformed(snap[i])
       THEN LoopFrom(b, snap, i + 1, sugg, Append(fate, "malformed"))
  ELSE IF ~LacksEmbedding(snap[i].embedding)
       THEN LoopFrom(b, snap, i + 1, Append(sugg, Item(snap[i], snap[i].embedding)),
                     Append(fate, "stored"))
  ELSE IF EmbedSkipped(snap[i].original)
       THEN LoopFrom(b, snap, i + 1, AfterNull(b, sugg, snap[i]), Append(fate, "null"))
  ELSE [pc |-> "embedDoc", idx |-> i, sugg |-> sugg, fate |-> fate]

\* the catch of the handler answers nothing
TranslationFailed_Silent(cause) == NoResponse

\* catch (error) of the handler
TranslationFailed(cause) == Resp(500, [error |-> "Translation failed"], cause)

\* if (approved.length > 0) around the ranking section, in server.js only
SkipsRanking(b, approved) == b = "server.js" /\ Len(approved) = 0

\* the handler after document rq.idx is dealt with: the rest of the loop,
\* then the ranking section and the call of the generate model
Continue(b, rq, sugg, fate) ==
  LET lp == LoopFrom(b, rq.snap, rq.idx + 1, sugg, fate)
  IN  IF lp.pc = "embedDoc"
      THEN [rq EXCEPT !.pc = "embedDoc", !.idx = lp.idx, !.emb = NullVec,
                      !.approved = lp.sugg, !.fate = lp.fate]
      ELSE IF \E k \in 1..Len(lp.sugg) : lp.sugg[k].embedding = NullVec
      THEN \* magnitude(null) throws a TypeError inside approved.map
           [rq EXCEPT !.pc = "done", !.idx = lp.idx, !.emb = NullVec,
                      !.approved = lp.sugg, !.fate = lp.fate,
                      !.calls = Append(@, Call("score", 0, FALSE)),
                      !.response = TranslationFailed("scoring")]
      ELSE IF SkipsRanking(b, lp.sugg)
      THEN [rq EXCEPT !.pc = "generate", !.idx = lp.idx, !.emb = NullVec,
                      !.approved = lp.sugg, !.fate = lp.fate,
                      !.instruction = finalInstruction(b, <<>>)]
      ELSE LET topK == SelectTopK(SortScored(ScoreItems(rq.q, lp.sugg)), TopK, MinScore)
           IN  [rq EXCEPT !.pc = "generate", !.idx = lp.idx, !.emb = NullVec,
                          !.approved = lp.sugg, !.fate = lp.fate,
                          !.calls = Append(@, Call("score", 0, TRUE)),
                          !.topK = topK,
                          !.instruction = finalInstruction(b, topK)]

\* the catch of the loop rethrows: the request fails
CatchRecordError_Rethrow(b, rq, kind) ==
  [rq EXCEPT !.pc = "done", !.fate = Append(rq.fate, kind),
             !.response = TranslationFailed("record")]

\* a record whose write was rejected is pushed all the same
CatchRecordError_PushUnwritten(b, rq, kind) ==
  IF kind = "writeRaised"
  THEN Continue(b, rq, Append(rq.approved, Item(rq.snap[rq.idx], rq.emb)),
                Append(rq.fate, kind))
  ELSE Continue(b, rq, rq.approved, Append(rq.fate, kind))

\* catch (err) { console.error(...); continue; }
CatchRecordError(b, rq, kind) == Continue(b, rq, rq.approved, Append(rq.fate, kind))

\* the message is embedded in place of the record's original
DocEmbedding_OfMessage(rq) == EmbedValues(rq.message)

\* embedding = await embedText(original)
DocEmbedding(rq) == EmbedValues(rq.snap[rq.idx].original)

Fault == faults < MaxFaults /\ faults' = faults + 1

\* the retrieval is entered whatever embedText gave
Retrieves_Always(q) == TRUE

\* if (queryEmbedding)
Retrieves(q) == q # NullVec

\* the handler after "const queryEmbedding = await embedText(message)"
AfterQueryEmbedding(b, rq) ==
  IF Retrieves(rq.q)
  THEN [rq EXCEPT !.pc = "load"]
  ELSE [rq EXCEPT !.pc = "generate", !.instruction = finalInstruction(b, <<>>)]

(***************************************************************************)
(* 7. /api/translate                                                       *)
(***************************************************************************)
TranslateStart(r, message) ==
  /\ req[r].pc = "idle"
  /\ \A i \in 1..Len(ReqOrder) :
       (ReqOrder[i] = r /\ i > 1) => req[ReqOrder[i - 1]].pc # "idle"
  /\ req' = [req EXCEPT ![r] =
       IF message = ""
       THEN [@ EXCEPT !.pc = "done", !.message = message,
                      !.response = Resp(400, [error |-> "Missing message"], "validation")]
       ELSE IF EmbedSkipped(message)
       THEN AfterQueryEmbedding(build, [@ EXCEPT !.message = message])
       ELSE [@ EXCEPT !.pc = "embedQuery", !.message = message]]
  /\ UNCHANGED <<build, store, rx, faults>>
  /\ UNCHANGED <<rankVars, invVars, auxVars>>

\* embedContent answers with values: the snapshot query is sent
EmbedQueryReturns(r) ==
  /\ req[r].pc = "embedQuery"
  /\ req' = [req EXCEPT ![r] =
       AfterQueryEmbedding(build, [Logged(@, "embedQuery", 0, TRUE) EXCEPT
                                     !.q = EmbedValues(req[r].message)])]
  /\ UNCHANGED <<build, store, rx, faults>>
  /\ UNCHANGED <<rankVars, invVars, auxVars>>

\* embedContent answers without values: embedText returns null
EmbedQueryNull(r) ==
  /\ req[r].pc = "embedQuery"
  /\ Fault
  /\ req' = [req EXCEPT ![r] =
       AfterQueryEmbedding(build, Logged(@, "embedQuery", 0, TRUE))]
  /\ UNCHANGED <<build, store, rx>>
  /\ UNCHANGED <<rankVars, invVars, auxVars>>

EmbedQueryRaises(r) ==
  /\ req[r].pc = "embedQuery"
  /\ Fault
  /\ req' = [req EXCEPT ![r] =
       [Logged(@, "embedQuery", 0, FALSE) EXCEPT
          !.pc = "done", !.response = TranslationFailed("embedQuery")]]
  /\ UNCHANGED <<build, store, rx>>
  /\ UNCHANGED <<rankVars, invVars, auxVars>>

\* the snapshot of the approved collection arrives
LoadSnapshot(r) ==
  /\ req[r].pc = "load"
  /\ req' = [req EXCEPT ![r] =
       Continue(build, [Logged(@, "read", 0, TRUE) EXCEPT !.snap = store, !.idx = 0],
                <<>>, <<>>)]
  /\ UNCHANGED <<build, store, rx, faults>>
  /\ UNCHANGED <<rankVars, invVars, auxVars>>

LoadRaises(r) ==
  /\ req[r].pc = "load"
  /\ Fault
  /\ req' = [req EXCEPT ![r] =
       [Logged(@, "read", 0, FALSE) EXCEPT
          !.pc = "done", !.response = TranslationFailed("storeRead")]]
  /\ UNCHANGED <<build, store, rx>>
  /\ UNCHANGED <<rankVars, invVars, auxVars>>

\* embedText(original) resolves with a vector: doc.ref.update is sent
EmbedDocReturns(r) ==
  /\ req[r].pc = "embedDoc"
  /\ req' = [req EXCEPT ![r] =
       [Logged(@, "embedDoc", @.snap[@.idx].id, TRUE) EXCEPT
          !.pc = "update", !.emb = DocEmbedding(req[r])]]
  /\ UNCHANGED <<build, store, rx, faults>>
  /\ UNCHANGED <<rankVars, invVars, auxVars>>

\* embedContent answers without values: embedText returns null
EmbedDocNull(r) ==
  /\ req[r].pc = "embedDoc"
  /\ Fault
  /\ req' = [req EXCEPT ![r] =
       Continue(build, Logged(@, "embedDoc", @.snap[@.idx].id, TRUE),
                AfterNull(build, @.approved, @.snap[@.idx]), Append(@.fate, "null"))]
  /\ UNCHANGED <<build, store, rx>>
  /\ UNCHANGED <<rankVars, invVars, auxVars>>

EmbedDocRaises(r) ==
  /\ req[r].pc = "embedDoc"
  /\ Fault
  /\ req' = [req EXCEPT ![r] =
       CatchRecordError(build, Logged(@, "embedDoc", @.snap[@.idx].id, FALSE),
                        "embedRaised")]
  /\ UNCHANGED <<build, store, rx>>
  /\ UNCHANGED <<rankVars, invVars, auxVars>>

\* doc.ref.update({ embedding }) is applied and acknowledged
UpdateReturns(r) ==
  /\ req[r].pc = "update"
  /\ store' = [store EXCEPT ![req[r].idx].embedding = req[r].emb]
  /\ req' = [req EXCEPT ![r] =
       Continue(build, Logged(@, "write", @.snap[@.idx].id, TRUE),
                Append(@.approved, Item(@.snap[@.idx], @.emb)),
                Append(@.fate, "embedded"))]
  /\ UNCHANGED <<build, rx, faults>>
  /\ UNCHANGED <<rankVars, invVars, auxVars>>

UpdateRaises(r) ==
  /\ req[r].pc = "update"
  /\ Fault
  /\ req' = [req EXCEPT ![r] =
       CatchRecordError(build, Logged(@, "write", @.snap[@.idx].id, FALSE),
                        "writeRaised")]
  /\ UNCHANGED <<build, store, rx>>
  /\ UNCHANGED <<rankVars, invVars, auxVars>>

\* parsed.f of a parsed object: undefined when the field is missing
Field(v, f) == IF f \in DOMAIN v THEN v[f] ELSE Null

\* x || dflt
OrElse(x, dflt) == IF x = Null \/ x = "" THEN dflt ELSE x

\* the success body, server.js 356-375 and part_000 625-632
SuccessBody(b, rawText) ==
  LET p == JSONParse(rawText)
  IN  IF b = "server.js"
      THEN IF ~p.ok
           THEN [source_language |-> "unknown", translation |-> rawText,
                 romanization |-> Null, notes |-> Null]
           ELSE [source_language |-> OrElse(Field(p.value, "source_language"), "unknown"),
                 translation |-> OrElse(Field(p.value, "translation"), ""),
                 romanization |-> Field(p.value, "romanization"),
                 notes |-> Field(p.value, "notes")]
      ELSE IF ~p.ok
           THEN [source_language |-> "unknown", translation |-> rawText]
           ELSE p.value

GenerateReturns(r, rawText) ==
  /\ req[r].pc = "generate"
  /\ req' = [req EXCEPT ![r] =
       IF rawText = ""
       THEN [Logged(@, "generate", 0, TRUE) EXCEPT
               !.pc = "done",
               !.response = Resp(500, [error |-> "Empty output from Gemini"], "empty")]
       ELSE [Logged(@, "generate", 0, TRUE) EXCEPT
               !.pc = "done",
               !.response = Resp(200, SuccessBody(build, rawText), "none")]]
  /\ UNCHANGED <<build, store, rx, faults>>
  /\ UNCHANGED <<rankVars, invVars, auxVars>>

GenerateRaises(r) ==
  /\ req[r].pc = "generate"
  /\ req' = [req EXCEPT ![r] =
       [Logged(@, "generate", 0, FALSE) EXCEPT
          !.pc = "done", !.response = TranslationFailed("generate")]]
  /\ UNCHANGED <<build, store, rx, faults>>
  /\ UNCHANGED <<rankVars, invVars, auxVars>>

(***************************************************************************)
(* 8. /api/reindex-suggestions                                             *)
(***************************************************************************)
\* the for loop of the sweep from document i up to the next call of the
\* embed model, or to the end of the snapshot
RECURSIVE SweepFrom(_, _)
SweepFrom(snap, i) ==
  IF i > Len(snap) THEN i
  ELSE IF ~LacksEmbedding(snap[i].embedding) THEN SweepFrom(snap, i + 1)
  ELSE IF EmbedSkipped(snap[i].original) THEN SweepFrom(snap, i + 1)
  ELSE i

SweepContinue(x) ==
  LET i == SweepFrom(x.snap, x.idx + 1)
  IN  IF i > Len(x.snap)
      THEN [x EXCEPT !.pc = "done", !.idx = i, !.emb = NullVec,
                     !.response = Resp(200, [ok |-> TRUE, updatedCount |-> x.updatedCount],
                                       "none")]
      ELSE [x EXCEPT !.pc = "embedDoc", !.idx = i, !.emb = NullVec]

ReindexFailed(cause) == Resp(500, [error |-> "Reindex failed"], cause)

\* the route exists in server.js only
ReindexStart(tokenOk) ==
  /\ build = "server.js"
  /\ rx.pc = "idle"
  /\ rx' = IF tokenOk THEN [rx EXCEPT !.pc = "load"]
           ELSE [rx EXCEPT !.pc = "done",
                           !.response = Resp(403, [error |-> "Forbidden"], "token")]
  /\ UNCHANGED <<build, store, req, faults>>
  /\ UNCHANGED <<rankVars, invVars, auxVars>>

ReindexLoad ==
  /\ rx.pc = "load"
  /\ rx' = SweepContinue([rx EXCEPT !.snap = store, !.idx = 0])
  /\ UNCHANGED <<build, store, req, faults>>
  /\ UNCHANGED <<rankVars, invVars, auxVars>>

ReindexEmbedReturns ==
  /\ rx.pc = "embedDoc"
  /\ rx' = [rx EXCEPT !.pc = "update", !.emb = EmbedValues(rx.snap[rx.idx].original)]
  /\ UNCHANGED <<build, store, req, faults>>
  /\ UNCHANGED <<rankVars, invVars, auxVars>>

ReindexEmbedNull ==
  /\ rx.pc = "embedDoc"
  /\ Fault
  /\ rx' = SweepContinue(rx)
  /\ UNCHANGED <<build, store, req>>
  /\ UNCHANGED <<rankVars, invVars, auxVars>>

\* embedText or doc.ref.update rejects, or the snapshot query does
ReindexRaises ==
  /\ rx.pc \in {"load", "embedDoc", "update"}
  /\ Fault
  /\ rx' = [rx EXCEPT !.pc = "done", !.response = ReindexFailed(rx.pc)]
  /\ UNCHANGED <<build, store, req>>
  /\ UNCHANGED <<rankVars, invVars, auxVars>>

ReindexUpdateReturns ==
  /\ rx.pc = "update"
  /\ store' = [store EXCEPT ![rx.idx].embedding = rx.emb]
  /\ rx' = SweepContinue([rx EXCEPT !.updatedCount = @ + 1])
  /\ UNCHANGED <<build, req, faults>>
  /\ UNCHANGED <<rankVars, invVars, auxVars>>

\* one request and the sweep
Next ==
  \/ \E message \in Messages : TranslateStart(ReqOrder[1], message)
  \/ EmbedQueryReturns(ReqOrder[1])
  \/ EmbedQueryNull(ReqOrder[1])
  \/ EmbedQueryRaises(ReqOrder[1])
  \/ LoadSnapshot(ReqOrder[1])
  \/ LoadRaises(ReqOrder[1])
  \/ EmbedDocReturns(ReqOrder[1])
  \/ EmbedDocNull(ReqOrder[1])
  \/ EmbedDocRaises(ReqOrder[1])
  \/ UpdateReturns(ReqOrder[1])
  \/ UpdateRaises(ReqOrder[1])
  \/ \E rawText \in GenTexts : GenerateReturns(ReqOrder[1], rawText)
  \/ GenerateRaises(ReqOrder[1])
  \/ \E tokenOk \in BOOLEAN : ReindexStart(tokenOk)
  \/ ReindexLoad
  \/ ReindexEmbedReturns
  \/ ReindexEmbedNull
  \/ ReindexRaises
  \/ ReindexUpdateReturns

Spec == Init /\ [][Next]_vars

(***************************************************************************)
(* SpecLive: one /api/translate request whose external calls each return   *)
(* or raise in the end.                                                    *)
(***************************************************************************)
\* an external call awaited by the request returns or raises
Answered(r) ==
  \/ EmbedQueryReturns(r)
  \/ EmbedQueryNull(r)
  \/ EmbedQueryRaises(r)
  \/ LoadSnapshot(r)
  \/ LoadRaises(r)
  \/ EmbedDocReturns(r)
  \/ EmbedDocNull(r)
  \/ EmbedDocRaises(r)
  \/ UpdateReturns(r)
  \/ UpdateRaises(r)
  \/ \E rawText \in GenTexts : GenerateReturns(r, rawText)
  \/ GenerateRaises(r)

LiveNext ==
  \/ \E message \in Messages : TranslateStart(ReqOrder[1], message)
  \/ EmbedQueryReturns(ReqOrder[1])
  \/ EmbedQueryNull(ReqOrder[1])
  \/ EmbedQueryRaises(ReqOrder[1])
  \/ LoadSnapshot(ReqOrder[1])
  \/ LoadRaises(ReqOrder[1])
  \/ EmbedDocReturns(ReqOrder[1])
  \/ EmbedDocNull(ReqOrder[1])
  \/ EmbedDocRaises(ReqOrder[1])
  \/ UpdateReturns(ReqOrder[1])
  \/ UpdateRaises(ReqOrder[1])
  \/ \E rawText \in GenTexts : GenerateReturns(ReqOrder[1], rawText)
  \/ GenerateRaises(ReqOrder[1])

\* the stores of the live request: a new record before a stored one, a new
\* record before a malformed one, a blank record alone, and two new records
LiveStores ==
  { MkStore(<<[original |-> "a", suggestion |-> "sa", embedding |-> NullVec],
              [original |-> "c", suggestion |-> "sc", embedding |-> NullVec]>>) } \cup
  { MkStore(<<[original |-> "a", suggestion |-> "sa", embedding |-> NullVec],
              [original |-> "c", suggestion |-> "sc", embedding |-> EmbedValues("c")]>>),
    MkStore(<<[original |-> "c", suggestion |-> "sc", embedding |-> NullVec],
              [original |-> "a", suggestion |-> "", embedding |-> NullVec]>>),
    MkStore(<<[original |-> Blank, suggestion |-> "sw", embedding |-> NullVec]>>) }

LiveInit ==
  /\ RankIdle
  /\ InvIdle
  /\ AuxIdle
  /\ build \in Builds
  /\ store \in LiveStores
  /\ req = [r \in Reqs |-> ReqIdle]
  /\ rx = RxIdle
  /\ faults = 0

SpecLive == LiveInit /\ [][LiveNext]_vars /\ WF_vars(Answered(ReqOrder[1]))

(***************************************************************************)
(* SpecRace: concurrent requests and the sweep embed the same records      *)
(***************************************************************************)
RaceDocs ==
  { [original |-> "a", suggestion |-> "sa", embedding |-> NullVec],
    [original |-> "c", suggestion |-> "sc", embedding |-> NullVec] }

RaceInit ==
  /\ RankIdle
  /\ InvIdle
  /\ AuxIdle
  /\ build = "server.js"
  /\ store \in {MkStore(ds) : ds \in SeqsUpTo(RaceDocs, MaxDocs) \ {<<>>}}
  /\ req = [r \in Reqs |-> ReqIdle]
  /\ rx = RxIdle
  /\ faults = 0

\* the failures of the race are rejections of the embed call and of the write
RaceNext ==
  \/ \E r \in Reqs : TranslateStart(r, "q")
  \/ \E r \in Reqs : EmbedQueryReturns(r)
  \/ \E r \in Reqs : LoadSnapshot(r)
  \/ \E r \in Reqs : EmbedDocReturns(r)
  \/ \E r \in Reqs : EmbedDocRaises(r)
  \/ \E r \in Reqs : UpdateReturns(r)
  \/ \E r \in Reqs : UpdateRaises(r)
  \/ \E r \in Reqs : GenerateReturns(r, JsonEn)
  \/ ReindexStart(TRUE)
  \/ ReindexLoad
  \/ ReindexEmbedReturns
  \/ ReindexRaises
  \/ ReindexUpdateReturns

SpecRace == RaceInit /\ [][RaceNext]_vars

(***************************************************************************)
(* SpecFlow: the suggestion routes of the part_000 build, /api/suggest and *)
(* /api/approve-suggestion, next to one /api/translate request.  pending   *)
(* is the collection suggestions_pending, store is suggestions_approved.   *)
(***************************************************************************)
\* calls of /api/approve-suggestion being served, in the order they arrive
ApOrder == <<"a1", "a2">>
Aps == {ApOrder[i] : i \in 1..Len(ApOrder)}

\* bodies of POST /api/suggest: a complete one, one without original, one
\* without suggestion
SuggestBodies ==
  { [original |-> "a", suggestion |-> "sa", context |-> "ctx"],
    [original |-> "", suggestion |-> "sa", context |-> ""],
    [original |-> "a", suggestion |-> "", context |-> "ctx"] }

NoData ==
  [original |-> "", suggestion |-> "", context |-> "", status |-> "", createdAt |-> 0]

\* n counts the calls served so far
SubIdle == [pc |-> "idle", n |-> 0, data |-> NoData, response |-> NoResponse]

ApIdle ==
  [pc |-> "idle", n |-> 0, id |-> 0, data |-> NoData, approvedAt |-> 0, newId |-> 0,
   response |-> NoResponse]

\* the suggestion is lost on the way
DataOf_OriginalOnly(d) ==
  [original |-> d.original, suggestion |-> "", context |-> d.context,
   status |-> d.status, createdAt |-> d.createdAt]

\* doc.data(): the fields of a document without its id
DataOf(d) ==
  [original |-> d.original, suggestion |-> d.suggestion, context |-> d.context,
   status |-> d.status, createdAt |-> d.createdAt]

\* the document is stored without its creation time
PendingDoc_Unstamped(id, data) ==
  [id |-> id, original |-> data.original, suggestion |-> data.suggestion,
   context |-> data.context, status |-> data.status, createdAt |-> 0]

\* the document of suggestions_pending under the id the add gave it
PendingDoc(id, data) ==
  [id |-> id, original |-> data.original, suggestion |-> data.suggestion,
   context |-> data.context, status |-> data.status, createdAt |-> data.createdAt]

\* the approved copy keeps the status of the pending record
ApprovedDoc_KeepStatus(id, data, approvedAt) ==
  [id |-> id, original |-> data.original, suggestion |-> data.suggestion,
   context |-> data.context, status |-> data.status, createdAt |-> data.createdAt,
   approvedAt |-> approvedAt, embedding |-> NullVec]

\* { ...data, status: "approved", approvedAt: Date.now() } under a new id;
\* the document has no embedding field
ApprovedDoc(id, data, approvedAt) ==
  [id |-> id, original |-> data.original, suggestion |-> data.suggestion,
   context |-> data.context, status |-> "approved", createdAt |-> data.createdAt,
   approvedAt |-> approvedAt, embedding |-> NullVec]

HasPending(id) == \E k \in 1..Len(pending) : pending[k].id = id

PendingOf(id) == pending[CHOOSE k \in 1..Len(pending) : pending[k].id = id]

\* docRef.delete(): deleting a document that is not there succeeds
Without(docs, id) == SelectSeq(docs, LAMBDA d : d.id # id)

FlowInit ==
  /\ RankIdle
  /\ InvIdle
  /\ PromptIdle
  /\ CosIdle
  /\ build = "part_000"
  /\ store = <<>>
  /\ req = [r \in Reqs |-> ReqIdle]
  /\ rx = RxIdle
  /\ faults = 0
  /\ pending = <<>>
  /\ sub = SubIdle
  /\ ap = [a \in Aps |-> ApIdle]
  /\ now = 1
  /\ promoted = {}

(***************************************************************************)
(* 8. /api/suggest                                                         *)
(***************************************************************************)
\* validation, then the document to add with createdAt: Date.now()
SubmitStart(body) ==
  /\ sub.pc \in {"idle", "done"}
  /\ sub.n < MaxSubmits
  /\ IF body.original = "" \/ body.suggestion = ""
     THEN /\ sub' = [sub EXCEPT !.pc = "done", !.n = @ + 1, !.data = NoData,
                                !.response = Resp(400, [error |-> "Missing fields"],
                                                  "validation")]
          /\ now' = now
     ELSE /\ sub' = [sub EXCEPT !.pc = "add", !.n = @ + 1,
                                !.data = [original |-> body.original,
                                          suggestion |-> body.suggestion,
                                          context |-> body.context,
                                          status |-> "pending", createdAt |-> now],
                                !.response = NoResponse]
          /\ now' = now + 1
  /\ UNCHANGED <<pending, ap, promoted>>
  /\ UNCHANGED <<rankVars, invVars, sysVars, promptVars, cosVars>>

\* db.collection("suggestions_pending").add(newSuggestion) resolves
SubmitAddReturns ==
  /\ sub.pc = "add"
  /\ pending' = Append(pending, PendingDoc(sub.n, sub.data))
  /\ sub' = [sub EXCEPT !.pc = "done",
                        !.response = Resp(200, [ok |-> TRUE, id |-> sub.n], "none")]
  /\ UNCHANGED <<ap, now, promoted>>
  /\ UNCHANGED <<rankVars, invVars, sysVars, promptVars, cosVars>>

SubmitAddRaises ==
  /\ sub.pc = "add"
  /\ Fault
  /\ sub' = [sub EXCEPT !.pc = "done",
                        !.response = Resp(500, [error |-> "Failed to save suggestion"],
                                          "add")]
  /\ UNCHANGED <<pending, ap, now, promoted>>
  /\ UNCHANGED <<build, store, req, rx>>
  /\ UNCHANGED <<rankVars, invVars, promptVars, cosVars>>

(***************************************************************************)
(* 9. /api/approve-suggestion                                              *)
(***************************************************************************)
ApproveFailed(cause) == Resp(500, [error |-> "Failed to approve suggestion"], cause)

ApproveStart(a, id) ==
  /\ ap[a].pc \in {"idle", "done"}
  /\ ap[a].n < MaxApproves
  /\ \A i \in 1..Len(ApOrder) :
       (ApOrder[i] = a /\ i > 1) => ap[ApOrder[i - 1]].pc # "idle"
  /\ ap' = [ap EXCEPT ![a] = [ApIdle EXCEPT !.pc = "get", !.n = ap[a].n + 1, !.id = id]]
  /\ UNCHANGED <<pending, sub, now, promoted>>
  /\ UNCHANGED <<rankVars, invVars, sysVars, promptVars, cosVars>>

\* docRef.get() resolves: 404 when the document does not exist, else the
\* document to add is built, with approvedAt: Date.now()
ApproveGetReturns(a) ==
  /\ ap[a].pc = "get"
  /\ IF ~HasPending(ap[a].id)
     THEN /\ ap' = [ap EXCEPT ![a] =
                 [@ EXCEPT !.pc = "done",
                           !.response = Resp(404, [error |-> "Not found"], "notFound")]]
          /\ now' = now
     ELSE /\ ap' = [ap EXCEPT ![a] =
                 [@ EXCEPT !.pc = "add", !.data = DataOf(PendingOf(ap[a].id)),
                           !.approvedAt = now]]
          /\ now' = now + 1
  /\ UNCHANGED <<pending, sub, promoted>>
  /\ UNCHANGED <<rankVars, invVars, sysVars, promptVars, cosVars>>

\* db.collection("suggestions_approved").add(...) resolves
ApproveAddReturns(a) ==
  /\ ap[a].pc = "add"
  /\ store' = Append(store, ApprovedDoc(Len(store) + 1, ap[a].data, ap[a].approvedAt))
  /\ ap' = [ap EXCEPT ![a] = [@ EXCEPT !.pc = "delete", !.newId = Len(store) + 1]]
  /\ UNCHANGED <<pending, sub, now, promoted>>
  /\ UNCHANGED <<build, req, rx, faults>>
  /\ UNCHANGED <<rankVars, invVars, promptVars, cosVars>>

\* docRef.delete() resolves
ApproveDeleteReturns(a) ==
  /\ ap[a].pc = "delete"
  /\ pending' = Without(pending, ap[a].id)
  /\ ap' = [ap EXCEPT ![a] =
         [@ EXCEPT !.pc = "done", !.response = Resp(200, [ok |-> TRUE], "none")]]
  /\ promoted' = promoted \cup
       { [pid |-> ap[a].id, aid |-> ap[a].newId,
          idle |-> {r \in Reqs : req[r].pc = "idle"}] }
  /\ UNCHANGED <<sub, now>>
  /\ UNCHANGED <<rankVars, invVars, sysVars, promptVars, cosVars>>

\* the catch takes the approved copy back when the delete was rejected
ApproveCatch_Undo(docs, h) == IF h.pc = "delete" THEN Without(docs, h.newId) ELSE docs

\* catch (err) { console.error(err); res.status(500)... }: the approved
\* collection is left as it is
ApproveCatch(docs, h) == docs

\* docRef.get(), the add or docRef.delete() rejects
ApproveRaises(a) ==
  /\ ap[a].pc \in {"get", "add", "delete"}
  /\ Fault
  /\ ap' = [ap EXCEPT ![a] = [@ EXCEPT !.pc = "done", !.response = ApproveFailed(ap[a].pc)]]
  /\ store' = ApproveCatch(store, ap[a])
  /\ UNCHANGED <<pending, sub, now, promoted>>
  /\ UNCHANGED <<build, req, rx>>
  /\ UNCHANGED <<rankVars, invVars, promptVars, cosVars>>

\* one call of each route at a time
FlowNext ==
  \/ \E body \in SuggestBodies : SubmitStart(body)
  \/ SubmitAddReturns
  \/ SubmitAddRaises
  \/ \E id \in 1..MaxSubmits : ApproveStart(ApOrder[1], id)
  \/ ApproveGetReturns(ApOrder[1])
  \/ ApproveAddReturns(ApOrder[1])
  \/ ApproveDeleteReturns(ApOrder[1])
  \/ ApproveRaises(ApOrder[1])
  \/ TranslateStart(ReqOrder[1], "q")
  \/ EmbedQueryReturns(ReqOrder[1])
  \/ LoadSnapshot(ReqOrder[1])
  \/ EmbedDocReturns(ReqOrder[1])
  \/ EmbedDocNull(ReqOrder[1])
  \/ EmbedDocRaises(ReqOrder[1])
  \/ UpdateReturns(ReqOrder[1])
  \/ UpdateRaises(ReqOrder[1])
  \/ GenerateReturns(ReqOrder[1], JsonEn)

SpecFlow == FlowInit /\ [][FlowNext]_vars

(***************************************************************************)
(* SpecFlowRace: calls of /api/approve-suggestion served at the same time  *)
(* on a pending collection that holds submitted records.                   *)
(***************************************************************************)
\* the record /api/suggest stored as its id-th one
SubmittedDoc(id) ==
  PendingDoc(id, [original |-> "a", suggestion |-> "sa", context |-> "ctx",
                  status |-> "pending", createdAt |-> id])

FlowRaceInit ==
  /\ RankIdle
  /\ InvIdle
  /\ PromptIdle
  /\ CosIdle
  /\ build = "part_000"
  /\ store = <<>>
  /\ req = [r \in Reqs |-> ReqIdle]
  /\ rx = RxIdle
  /\ faults = 0
  /\ pending \in {[id \in 1..n |-> SubmittedDoc(id)] : n \in 1..MaxSubmits}
  /\ sub = [SubIdle EXCEPT !.n = Len(pending)]
  /\ ap = [a \in Aps |-> ApIdle]
  /\ now = Len(pending) + 1
  /\ promoted = {}

FlowRaceNext ==
  \/ \E a \in Aps : \E id \in 1..MaxSubmits : ApproveStart(a, id)
  \/ \E a \in Aps : ApproveGetReturns(a)
  \/ \E a \in Aps : ApproveAddReturns(a)
  \/ \E a \in Aps : ApproveDeleteReturns(a)
  \/ \E a \in Aps : ApproveRaises(a)

SpecFlowRace == FlowRaceInit /\ [][FlowRaceNext]_vars

(***************************************************************************)
(* SpecPrompt: the assembly of the instruction text, as each handler that  *)
(* calls the generate model does it: /api/translate of server.js and of    *)
(* the part_000 build (ranked examples), /api/translate of part_002 and    *)
(* sendMessageToGemini (caller-supplied vocabulary).                       *)
(***************************************************************************)
PromptBuilds == {"server.js", "part_000", "part_002", "sendMessageToGemini"}

\* the handlers with a retrieval: only they have ranked examples
Ranks(b) == b \in {"server.js", "part_000"}

ExampleItems ==
  { [original |-> "a", suggestion |-> "sa", context |-> "ctx"],
    [original |-> "c", suggestion |-> "sc", context |-> ""] }

\* the first item declares the original of an example
VocabularyItems ==
  { [original |-> "a", suggestion |-> "va", context |-> "vctx"],
    [original |-> "d", suggestion |-> "vd", context |-> ""] }

\* `For "o", use "s". Context: c` in sendMessageToGemini, `"o" = "s" (c)` in
\* part_002
VocabularyLine(b, item, n) ==
  Part(IF b = "part_002" THEN "vocabularyEq" ELSE "vocabularyFor",
       n, item.original, item.suggestion, item.context)

\* "### USER DEFINED VOCABULARY:"
VocabularyHeader == Part("vocabularyHeader", 0, "", "", "")

\* if (vocabulary.length > 0) { header; vocabulary.forEach(line) }
vocabularyText(b, vocabulary) ==
  IF Len(vocabulary) > 0
  THEN <<VocabularyHeader>> \o
       [n \in 1..Len(vocabulary) |-> VocabularyLine(b, vocabulary[n], n)]
  ELSE <<>>

\* the instruction handed to generateContent; the /api/translate handlers
\* with a retrieval read only message from the request body
Assemble(b, topK, vocabulary) ==
  IF Ranks(b)
  THEN finalInstruction(b, topK)
  ELSE BaseInstruction \o vocabularyText(b, vocabulary)

PromptInit ==
  /\ RankIdle
  /\ InvIdle
  /\ SysIdle
  /\ FlowIdle
  /\ CosIdle
  /\ pr_pc = "assemble"
  /\ pr_build \in PromptBuilds
  /\ pr_topK \in (IF Ranks(pr_build) THEN SeqsUpTo(ExampleItems, MaxExamples) ELSE {<<>>})
  /\ pr_vocabulary \in SeqsUpTo(VocabularyItems, MaxVocabulary)
  /\ pr_instruction = <<>>

PromptAssemble ==
  /\ pr_pc = "assemble"
  /\ pr_pc' = "done"
  /\ pr_instruction' = Assemble(pr_build, pr_topK, pr_vocabulary)
  /\ UNCHANGED <<pr_build, pr_topK, pr_vocabulary>>
  /\ UNCHANGED <<rankVars, invVars, sysVars, flowVars, cosVars>>

PromptNext == PromptAssemble

SpecPrompt == PromptInit /\ [][PromptNext]_vars

(***************************************************************************)
(* SpecCos: cosineSimilarity on its own, in binary floating point.         *)
(* A number is m * 2^e with a significand m of FloatBits bits; every       *)
(* operation returns the representable number nearest to the exact result, *)
(* ties to the even significand, as IEEE 754 does.  The numbers of the     *)
(* program have 53 bits where the model has FloatBits.  Components are     *)
(* non-negative integers.                                                  *)
(***************************************************************************)
\* bits of the significand
FloatBits == 7

Fl(m, e) == [k |-> "num", m |-> m, e |-> e]
FlZero == Fl(0, 0)
\* 0 / 0
FlNaN == [k |-> "nan", m |-> 0, e |-> 0]
\* x / 0 with x > 0
FlInf == [k |-> "inf", m |-> 0, e |-> 0]

RECURSIVE BitLen(_)
BitLen(n) == IF n = 0 THEN 0 ELSE 1 + BitLen(n \div 2)

\* q * 2^e, or a little more when sticky, rounded to FloatBits bits;
\* q has more than FloatBits bits
RoundBits(q, sticky, e) ==
  LET sh == BitLen(q) - FloatBits
      hi == q \div 2^sh
      lo == q % 2^sh
      half == 2^(sh - 1)
      up == \/ lo > half
            \/ lo = half /\ sticky
            \/ lo = half /\ ~sticky /\ hi % 2 = 1
      m == IF up THEN hi + 1 ELSE hi
  IN  IF m = 2^FloatBits THEN Fl(2^(FloatBits - 1), e + sh + 1) ELSE Fl(m, e + sh)

\* the number nearest to (n / d) * 2^e, for n > 0 and d > 0
RoundRat(n, d, e) ==
  LET j == CHOOSE j \in 0..(2 * FloatBits + 2) :
             /\ n * 2^j >= d * 2^FloatBits
             /\ j = 0 \/ n * 2^(j - 1) < d * 2^FloatBits
      q == (n * 2^j) \div d
  IN  RoundBits(q, (n * 2^j) % d # 0, e - j)

\* an integer as a number
FlInt(n) == IF n = 0 THEN FlZero ELSE RoundRat(n, 1, 0)

\* an integer-valued number as an integer
ToInt(x) == IF x.e >= 0 THEN x.m * 2^(x.e) ELSE x.m \div 2^(0 - x.e)

\* the integer n as the program holds it
RoundInt(n) == ToInt(FlInt(n))

FlOne == FlInt(1)

\* x * y
FlMul(x, y) ==
  IF x.m = 0 \/ y.m = 0 THEN FlZero ELSE RoundRat(x.m * y.m, 1, x.e + y.e)

\* x / y
FlDiv(x, y) ==
  IF y.m = 0 THEN (IF x.m = 0 THEN FlNaN ELSE FlInf)
  ELSE IF x.m = 0 THEN FlZero
  ELSE RoundRat(x.m, y.m, x.e - y.e)

\* Math.sqrt(n) for an integer n
FlSqrt(n) ==
  IF n = 0 THEN FlZero
  ELSE LET j == CHOOSE j \in 0..FloatBits :
                  /\ n * 4^j >= 4^FloatBits
                  /\ j = 0 \/ n * 4^(j - 1) < 4^FloatBits
           q == CHOOSE q \in (2^FloatBits)..(2^(FloatBits + 1)) :
                  q * q <= n * 4^j /\ n * 4^j < (q + 1) * (q + 1)
       IN  RoundBits(q, q * q # n * 4^j, 0 - j)

\* for (let i = 0; i < len; i++) s += a[i] * b[i]
RECURSIVE DotFlLoop(_, _, _, _, _)
DotFlLoop(a, b, i, len, s) ==
  IF i > len THEN s
  ELSE DotFlLoop(a, b, i + 1, len, RoundInt(s + RoundInt(a[i] * b[i])))

dotFl(a, b) == DotFlLoop(a, b, 1, Min2(Len(a), Len(b)), 0)

\* for (const x of v) s += x * x
RECURSIVE SumSquaresFl(_, _, _)
SumSquaresFl(v, i, s) ==
  IF i > Len(v) THEN s ELSE SumSquaresFl(v, i + 1, RoundInt(s + RoundInt(v[i] * v[i])))

magnitudeFl(v) == FlSqrt(SumSquaresFl(v, 1, 0))

\* the quotient is taken whatever the magnitudes are
cosineSimilarityFl_Unguarded(a, b) ==
  FlDiv(FlInt(dotFl(a, b)), FlMul(magnitudeFl(a), magnitudeFl(b)))

\* if (!ma || !mb) return 0; return dot(a, b) / (ma * mb)
cosineSimilarityFl(a, b) ==
  LET ma == magnitudeFl(a)
      mb == magnitudeFl(b)
  IN  IF ma.m = 0 \/ mb.m = 0 THEN FlZero
      ELSE FlDiv(FlInt(dotFl(a, b)), FlMul(ma, mb))

CosVectors == SeqsUpTo(0..MaxEntry, MaxDim)

CosInit ==
  /\ RankIdle
  /\ InvIdle
  /\ SysIdle
  /\ FlowIdle
  /\ PromptIdle
  /\ cs_pc = "call"
  /\ cs_a \in CosVectors
  /\ cs_b \in CosVectors
  /\ cs_out = <<>>

CosCall ==
  /\ cs_pc = "call"
  /\ cs_out' = cosineSimilarityFl(cs_a, cs_b)
  /\ cs_pc' = "done"
  /\ UNCHANGED <<cs_a, cs_b>>
  /\ UNCHANGED <<rankVars, invVars, sysVars, flowVars, promptVars>>

CosNext == CosCall

SpecCos == CosInit /\ [][CosNext]_vars

(***************************************************************************)
(* Claims on sendMessageToGemini                                           *)
(***************************************************************************)
\* the generate call raised or returned empty text
RaisedOrEmpty(call) == call.outcome = "raise" \/ call.text = ""

\* the generate call returned non-empty text that JSON.parse rejects
Unparsable(call) ==
  /\ call.outcome = "text"
  /\ call.text # ""
  /\ ~tryModelParse(inv_build, call.text).ok

\* the attempt on the model gave no result
AttemptFailed(call) == RaisedOrEmpty(call) \/ Unparsable(call)

\* C2: generate is called on the model identifiers in list order, each at
\* most once; model i+1 is called only after model i raised or returned empty
\* text; the first success ends the calls and its parsed output is the result.
C2_Original ==
  /\ Len(inv_calls) <= Len(modelsToTry(inv_build))
  /\ \A k \in 1..Len(inv_calls) : inv_calls[k].model = modelsToTry(inv_build)[k]
  /\ \A k \in 1..(Len(inv_calls) - 1) : RaisedOrEmpty(inv_calls[k])
  /\ inv_pc = "returned" =>
       /\ inv_result = tryModelParse(inv_build, inv_calls[Len(inv_calls)].text).value
       /\ inv_i = Len(inv_calls)

C4_Original ==
  \A k \in 1..Len(inv_calls) :
    Unparsable(inv_calls[k]) =>
      /\ k = Len(inv_calls)
      /\ inv_pc = "returned"
      /\ inv_result = [source_language |-> "unknown", translation |-> inv_calls[k].text]

\* the generate call resolved with empty text
EmptyText(call) == call.outcome = "text" /\ call.text = ""

\* C17: a generate call that returns empty text counts as a failure of that
\* model: it gives no result, and while an untried model remains the invoker
\* goes on to the next model of the list without ending the invocation.
C17_EmptyAdvances ==
  LET models == modelsToTry(inv_build)
  IN  \A k \in 1..Len(inv_calls) :
        EmptyText(inv_calls[k]) =>
          /\ ~(inv_pc = "returned" /\ Len(inv_calls) = k)
          /\ (k < Len(models) /\ Len(inv_calls) = k)
               => /\ inv_pc = "try" /\ inv_i = k + 1
                  /\ inv_result = Null /\ inv_error = Null
          /\ (k < Len(models) /\ Len(inv_calls) > k)
               => inv_calls[k + 1].model = models[k + 1]

\* the first model returned empty text and the second one gave the result
C17_Witness ==
  /\ Len(inv_calls) = 2
  /\ EmptyText(inv_calls[1])
  /\ inv_pc = "returned"
  /\ inv_result = ParsedEn

(***************************************************************************)
(* Claims on the instruction text                                          *)
(***************************************************************************)
IsExamplesHeader(part) == part.kind \in {"examplesHeaderApproved", "examplesHeader"}

\* C18: with ranked examples and vocabulary overrides both present the
\* instruction is the base instruction, then the examples section (one line
\* per example in rank order), then the vocabulary section (one line per
\* item in input order).
C18_Original ==
  (pr_pc = "done" /\ Len(pr_topK) > 0 /\ Len(pr_vocabulary) > 0) =>
    LET ne == Len(pr_topK)
        nv == Len(pr_vocabulary)
    IN  /\ Len(pr_instruction) = 1 + (1 + ne) + (1 + nv)
        /\ SubSeq(pr_instruction, 1, 1) = BaseInstruction
        /\ IsExamplesHeader(pr_instruction[2])
        /\ \A n \in 1..ne :
             /\ pr_instruction[2 + n].kind = "example"
             /\ pr_instruction[2 + n].n = n
             /\ pr_instruction[2 + n].original = pr_topK[n].original
             /\ pr_instruction[2 + n].suggestion = pr_topK[n].suggestion
        /\ pr_instruction[3 + ne] = VocabularyHeader
        /\ \A n \in 1..nv :
             /\ pr_instruction[3 + ne + n].kind \in {"vocabularyEq", "vocabularyFor"}
             /\ pr_instruction[3 + ne + n].n = n
             /\ pr_instruction[3 + ne + n].original = pr_vocabulary[n].original
             /\ pr_instruction[3 + ne + n].suggestion = pr_vocabulary[n].suggestion

\* C19: without a ranked example and without a vocabulary override the
\* instruction handed to the model is exactly the base instruction.
C19_BaseAlone ==
  (pr_pc = "done" /\ Len(pr_topK) = 0 /\ Len(pr_vocabulary) = 0) =>
    pr_instruction = BaseInstruction

\* nothing to add, in a handler with a retrieval
C19_Witness ==
  /\ pr_pc = "done" /\ pr_build = "server.js"
  /\ pr_topK = <<>> /\ pr_vocabulary = <<>>
  /\ pr_instruction = BaseInstruction

(***************************************************************************)
(* Claims on the retrieval pass                                            *)
(***************************************************************************)
Raised(f) == f \in {"embedRaised", "writeRaised"}

InApproved(rq, id) == \E k \in 1..Len(rq.approved) : rq.approved[k].id = id

\* C5: every record handed to scoring has a non-null embedding; a record
\* whose embedding cannot be obtained is left out of the scored list and
\* stays in the store.
C5_Original ==
  \A r \in Reqs :
    /\ \A k \in 1..Len(req[r].approved) : req[r].approved[k].embedding # NullVec
    /\ \A i \in 1..Len(req[r].fate) :
         (req[r].fate[i] = "null" \/ Raised(req[r].fate[i])) =>
            /\ ~InApproved(req[r], req[r].snap[i].id)
            /\ i <= Len(store) /\ store[i].id = req[r].snap[i].id

\* C6: when the embed call or the store write raises for one record, only that
\* record is left out: every other record of the snapshot is still processed
\* and, once embedded, handed to the ranking, and the request does not fail
\* because of that record.
C6_RaiseSkipsOneRecord ==
  \A r \in Reqs :
    LET rq == req[r]
    IN  (\E i \in 1..Len(rq.fate) : Raised(rq.fate[i])) =>
          /\ rq.pc \in {"embedDoc", "update", "generate", "done"}
          /\ rq.pc \in {"generate", "done"} => Len(rq.fate) = Len(rq.snap)
          /\ \A i \in 1..Len(rq.fate) :
               /\ Raised(rq.fate[i]) => ~InApproved(rq, rq.snap[i].id)
               /\ rq.fate[i] \in {"stored", "embedded"} =>
                    \E k \in 1..Len(rq.approved) :
                      /\ rq.approved[k].id = rq.snap[i].id
                      /\ rq.approved[k].embedding = EmbedValues(rq.snap[i].original)
          /\ Len(rq.approved) <= TopK /\ rq.pc = "generate" =>
               \A k \in 1..Len(rq.approved) :
                 (10 * dot(rq.q, rq.approved[k].embedding)
                    > 3 * magnitude(rq.q) * magnitude(rq.approved[k].embedding))
                 => \E j \in 1..Len(rq.topK) : rq.topK[j].id = rq.approved[k].id
          /\ rq.response.cause # "record"
          /\ (rq.response.cause = "scoring") => \E i \in 1..Len(rq.fate) : rq.fate[i] = "null"

\* the first record raised, a later one was embedded, stored and ranked, and
\* the request answered with a translation
C6_Witness ==
  \E r \in Reqs :
    /\ req[r].pc = "done"
    /\ req[r].response.status = 200
    /\ Len(req[r].fate) = 2
    /\ Raised(req[r].fate[1])
    /\ req[r].fate[2] = "embedded"
    /\ Len(req[r].topK) = 1
    /\ req[r].topK[1].id = req[r].snap[2].id

\* C7: whatever the interleaving of requests and sweeps, every write stores
\* embed(original) of the record written: a stored embedding is absent or
\* equal to embed(original), and every request ranks the record with it.
C7_StoredIsEmbedOfOriginal ==
  /\ \A i \in 1..Len(store) :
       store[i].embedding = NullVec \/ store[i].embedding = EmbedValues(store[i].original)
  /\ \A r \in Reqs :
       /\ req[r].pc = "update" => req[r].emb = EmbedValues(store[req[r].idx].original)
       /\ \A k \in 1..Len(req[r].approved) :
            req[r].approved[k].embedding = EmbedValues(store[req[r].approved[k].id].original)
       /\ \A k \in 1..Len(req[r].topK) :
            /\ req[r].topK[k].embedding = EmbedValues(store[req[r].topK[k].id].original)
            /\ req[r].topK[k].score =
                 cosineSimilarity(EmbedValues(req[r].message),
                                  EmbedValues(store[req[r].topK[k].id].original))
  /\ rx.pc = "update" => rx.emb = EmbedValues(store[rx.idx].original)

\* both requests and the sweep wrote the embedding of the first record
C7_Witness ==
  /\ \A r \in Reqs : req[r].pc = "done" /\ req[r].fate[1] = "embedded"
                     /\ Len(req[r].topK) > 0
  /\ rx.pc = "done"
  /\ rx.updatedCount = Len(store)
  /\ \A i \in 1..Len(store) : store[i].embedding = EmbedValues(store[i].original)

\* embedText(message) gave null: without a call for a blank message, or
\* because the embed model answered without values
EmbedGaveNull(rq) ==
  /\ rq.q = NullVec
  /\ \/ \E k \in 1..Len(rq.calls) : rq.calls[k] = Call("embedQuery", 0, TRUE)
     \/ rq.pc # "idle" /\ rq.message # "" /\ EmbedSkipped(rq.message)

HasCall(rq, ops) == \E k \in 1..Len(rq.calls) : rq.calls[k].op \in ops

\* C11: when embedText(message) gives null the approved collection is not
\* read, no record is embedded or written, nothing is scored, the final
\* instruction is the base instruction alone, and the generate model is called.
C11_NullQuerySkipsRetrieval ==
  \A r \in Reqs :
    EmbedGaveNull(req[r]) =>
      /\ ~HasCall(req[r], {"read", "embedDoc", "write", "score"})
      /\ req[r].snap = <<>> /\ req[r].fate = <<>>
      /\ req[r].approved = <<>> /\ req[r].topK = <<>>
      /\ req[r].instruction = BaseInstruction
      /\ \/ req[r].pc = "generate"
         \/ /\ req[r].pc = "done"
            /\ req[r].calls[Len(req[r].calls)].op = "generate"

\* the embed model answered without values and the translation was returned
C11_Witness ==
  \E r \in Reqs :
    /\ req[r].message = "q"
    /\ EmbedGaveNull(req[r])
    /\ req[r].pc = "done"
    /\ req[r].response.status = 200

\* position of the first entry of the log that is the given call, 0 if none
RECURSIVE FirstCall(_, _, _)
FirstCall(calls, c, k) ==
  IF k > Len(calls) THEN 0
  ELSE IF calls[k] = c THEN k
  ELSE FirstCall(calls, c, k + 1)

InTopK(rq, id) == \E k \in 1..Len(rq.topK) : rq.topK[k].id = id

\* C12: a record loaded without an embedding is scored with a newly computed
\* embedding only after the write of that embedding onto the record has
\* completed; a record whose embedding was computed but whose write was
\* rejected is not scored in that request.
C12_WriteBeforeScoring ==
  \A r \in Reqs :
    \A i \in 1..Len(req[r].snap) :
      LET rq == req[r]
          d == rq.snap[i]
          w == FirstCall(rq.calls, Call("write", d.id, TRUE), 1)
      IN  /\ ( /\ LacksEmbedding(d.embedding)
               /\ \E k \in 1..Len(rq.approved) :
                    rq.approved[k].id = d.id /\ rq.approved[k].embedding # NullVec )
             => /\ w > 0
                /\ \A k \in 1..Len(rq.calls) : rq.calls[k].op = "score" => w < k
          /\ ( /\ HasCall(rq, {"score"})
               /\ \E k \in 1..Len(rq.calls) : rq.calls[k] = Call("embedDoc", d.id, TRUE)
               /\ \E k \in 1..Len(rq.calls) : rq.calls[k] = Call("write", d.id, FALSE) )
             => ~InApproved(rq, d.id) /\ ~InTopK(rq, d.id)

\* one record was written and ranked, the write of the other was rejected,
\* and the candidates were scored
C12_Witness ==
  \E r \in Reqs :
    /\ req[r].pc = "done" /\ req[r].response.status = 200
    /\ HasCall(req[r], {"score"})
    /\ \E i, j \in 1..Len(req[r].snap) :
         /\ req[r].fate[i] = "embedded" /\ InTopK(req[r], req[r].snap[i].id)
         /\ req[r].fate[j] = "writeRaised"

C25_WitnessOriginal ==
  \E r \in Reqs :
    /\ req[r].pc = "done" /\ req[r].response.status = 200
    /\ \E i \in 1..Len(req[r].snap) :
         req[r].snap[i].original = "" /\ req[r].fate[i] = "malformed"

\* the calls of one operation that a request made for one record
CallsFor(rq, op, id) == {k \in 1..Len(rq.calls) : rq.calls[k].op = op /\ rq.calls[k].id = id}

\* C26: when embedText gives null for an approved record lacking an
\* embedding, the pass leaves the record out of its list, has called the embed
\* model for it at most once, has written nothing for it, and the record is
\* still in the store with its fields.
C26_Original ==
  \A r \in Reqs :
    \A i \in 1..Len(req[r].fate) :
      LET rq == req[r]
          d == rq.snap[i]
      IN  rq.fate[i] = "null"
            => /\ ~InApproved(rq, d.id)
               /\ Cardinality(CallsFor(rq, "embedDoc", d.id)) <= 1
               /\ CallsFor(rq, "write", d.id) = {}
               /\ i <= Len(store) /\ store[i].id = d.id
               /\ store[i].original = d.original /\ store[i].suggestion = d.suggestion
               /\ (rx.pc = "idle" => store[i] = d)

\* a non-empty array is stored on the record
HasEmbedding(e) == e # NullVec /\ e # <<>>

\* C27: a step of any operation leaves every approved record that has a
\* non-empty stored embedding in the store with a non-empty embedding; a
\* retrieval whose snapshot shows the embedding of a record makes no embed
\* call and no write for it, and the sweep never stops at such a record.
C27_StoredEmbeddingKept ==
  /\ [][\A i \in 1..Len(store) :
          HasEmbedding(store[i].embedding)
            => /\ i <= Len(store')
               /\ store'[i].id = store[i].id
               /\ HasEmbedding(store'[i].embedding)]_vars
  /\ [](\A r \in Reqs :
          \A i \in 1..Len(req[r].snap) :
            HasEmbedding(req[r].snap[i].embedding)
              => /\ CallsFor(req[r], "embedDoc", req[r].snap[i].id) = {}
                 /\ CallsFor(req[r], "write", req[r].snap[i].id) = {})
  /\ [](rx.pc \in {"embedDoc", "update"} => ~HasEmbedding(rx.snap[rx.idx].embedding))

\* the sweep has written the embedding of the record of original "a", which
\* no store starts with, and a retrieval that read its snapshot afterwards
\* has ranked the record from the stored embedding
C27_Witness ==
  /\ rx.pc = "done" /\ rx.updatedCount >= 1
  /\ \E r \in Reqs :
       /\ req[r].pc = "done" /\ req[r].response.status = 200
       /\ \E i \in 1..Len(req[r].snap) :
            /\ req[r].snap[i].original = "a"
            /\ HasEmbedding(req[r].snap[i].embedding)
            /\ req[r].fate[i] = "stored"
            /\ InApproved(req[r], req[r].snap[i].id)

\* C20: in the reindex sweep a raise of the embed call or of the store write
\* on one record does not abort the sweep: the sweep goes on to the end of
\* the snapshot and answers with its count.
C20_Original ==
  (rx.pc = "done" /\ rx.response.cause \notin {"token", "load"}) =>
    /\ rx.idx > Len(rx.snap)
    /\ rx.response.status = 200

(***************************************************************************)
(* Claims on the response of /api/translate                                *)
(***************************************************************************)
\* C21: every success response of /api/translate has the fields
\* source_language and translation, whatever JSON value the model returned.
C21_Original ==
  \A r \in Reqs :
    req[r].response.status = 200 =>
      /\ "source_language" \in DOMAIN req[r].response.body
      /\ "translation" \in DOMAIN req[r].response.body

\* the request has answered with one of the responses of the handler
Responded(rq) ==
  /\ rq.response # NoResponse
  /\ \/ rq.response.status = 400 /\ rq.response.body = [error |-> "Missing message"]
     \/ rq.response.status = 500 /\ "error" \in DOMAIN rq.response.body
     \/ rq.response.status = 200

\* C24: a request that has started ends with a response, a 400 validation
\* error, a 500 error or a translation result; the handler is finished
\* exactly when it has responded, and a response once sent is never followed
\* by another one.
C24_ExactlyOneResponse ==
  /\ [](\A r \in Reqs :
         /\ req[r].pc = "done" <=> req[r].response # NoResponse
         /\ req[r].pc = "done" => Responded(req[r]))
  /\ [][\A r \in Reqs :
         req[r].response # NoResponse => req'[r] = req[r]]_vars
  /\ \A r \in Reqs : (req[r].pc # "idle") ~> (req[r].pc = "done" /\ Responded(req[r]))

\* the request went through every external call and answered 200
C24_Witness ==
  \E r \in Reqs :
    /\ req[r].pc = "done" /\ req[r].response.status = 200
    /\ HasCall(req[r], {"write"}) /\ HasCall(req[r], {"score"})
    /\ Len(req[r].calls) >= 5

(***************************************************************************)
(* Claims on the suggestion routes                                         *)
(***************************************************************************)
InDocs(docs, id) == \E k \in 1..Len(docs) : docs[k].id = id

\* the step is taken by the handler of call a
StepOf(a) == ap'[a] # ap[a] /\ ap[a].pc \in {"get", "add", "delete"}

\* C13: an approve whose get finds no pending record of the id answers 404
\* and changes neither collection; an approve of an existing pending record
\* adds exactly one approved record with the pending record's fields, status
\* approved and an approval timestamp, and when it completes the pending
\* record of that id is gone.
C13_ApproveSteps ==
  [][\A a \in Aps :
       StepOf(a) =>
         /\ (ap[a].pc = "get" /\ ~InDocs(pending, ap[a].id) /\ faults' = faults)
              => /\ ap'[a].pc = "done" /\ ap'[a].response.status = 404
                 /\ pending' = pending /\ store' = store
         /\ ap'[a].response.status = 404 => ~InDocs(pending, ap[a].id)
         /\ (ap[a].pc = "get" /\ InDocs(pending, ap[a].id))
              => pending' = pending /\ store' = store
         /\ (ap[a].pc = "add" /\ ap'[a].pc = "delete")
              => /\ pending' = pending
                 /\ Len(store') = Len(store) + 1
                 /\ SubSeq(store', 1, Len(store)) = store
                 /\ ~InDocs(store, ap'[a].newId)
                 /\ LET new == store'[Len(store')]
                        old == PendingOf(ap[a].id)
                    IN  /\ new.id = ap'[a].newId
                        /\ new.original = old.original
                        /\ new.suggestion = old.suggestion
                        /\ new.context = old.context
                        /\ new.createdAt = old.createdAt
                        /\ new.status = "approved"
                        /\ new.approvedAt >= old.createdAt
         /\ (ap[a].pc = "delete" /\ ap'[a].response.status = 200)
              => /\ store' = store
                 /\ InDocs(store, ap[a].newId)
                 /\ ~InDocs(pending', ap[a].id)
                 /\ pending' = Without(pending, ap[a].id)
         /\ ap'[a].response.status = 200 => ap[a].pc = "delete"
    ]_vars

\* one approve completed and a later one found no pending record
C13_Witness ==
  \E a \in Aps :
    /\ ap[a].pc = "done" /\ ap[a].response.status = 404
    /\ \E p \in promoted : InDocs(store, p.aid) /\ ~InDocs(pending, p.pid)

\* C16: a submit without original or without suggestion answers 400 and
\* creates no record; any other submit whose add is acknowledged creates
\* exactly one new record, with the submitted fields, status pending and a
\* creation time, and returns its id; no step of submit touches the approved
\* collection, and no other step of submit changes the pending collection.
C16_SubmitSteps ==
  [][sub' # sub =>
       /\ store' = store
       /\ sub'.pc = "add" => sub'.data.original # "" /\ sub'.data.suggestion # ""
       /\ sub'.response.status = 400 => sub.pc \in {"idle", "done"} /\ pending' = pending
       /\ sub'.response.status = 200
            => /\ sub.pc = "add"
               /\ Len(pending') = Len(pending) + 1
               /\ SubSeq(pending', 1, Len(pending)) = pending
               /\ LET new == pending'[Len(pending')]
                  IN  /\ new.id = sub'.response.body.id
                      /\ ~InDocs(pending, new.id)
                      /\ new.original = sub.data.original
                      /\ new.suggestion = sub.data.suggestion
                      /\ new.context = sub.data.context
                      /\ new.status = "pending"
                      /\ new.createdAt > 0
       /\ sub'.response.status # 200 => pending' = pending
    ]_vars

\* a submit was refused, the next one created the pending record it returned
C16_Witness ==
  /\ sub.n = 2 /\ sub.pc = "done" /\ sub.response.status = 200
  /\ Len(pending) = 1
  /\ pending[1].id = sub.response.body.id /\ pending[1].status = "pending"
  /\ store = <<>>

\* the pending record and its approved copy are both in the store
BothPresent(h) ==
  /\ InDocs(pending, h.id)
  /\ \E k \in 1..Len(store) :
       /\ store[k].id = h.newId
       /\ store[k].original = PendingOf(h.id).original
       /\ store[k].suggestion = PendingOf(h.id).suggestion
       /\ store[k].status = "approved"

\* C14: approve adds the approved copy and deletes the pending record as two
\* store operations in that order: before the add there is no copy, between
\* the two both records are present, and after a rejected delete both stay
\* present, the handler having answered 500 without undoing the add.
C14_BothPresentBetween ==
  \A a \in Aps :
    /\ ap[a].pc \in {"get", "add"} => ap[a].newId = 0
    /\ ap[a].pc = "add" => InDocs(pending, ap[a].id)
    /\ ap[a].pc = "delete" => BothPresent(ap[a])
    /\ (ap[a].pc = "done" /\ ap[a].response.cause = "delete")
         => ap[a].response.status = 500 /\ BothPresent(ap[a])

\* the delete was rejected
C14_Witness ==
  \E a \in Aps :
    /\ ap[a].pc = "done" /\ ap[a].response.cause = "delete"
    /\ BothPresent(ap[a])

\* getApprovedSuggestionsWithEmbeddings has returned in the request
RetrievalDone(rq) ==
  /\ \E k \in 1..Len(rq.calls) : rq.calls[k] = Call("read", 0, TRUE)
  /\ Len(rq.fate) = Len(rq.snap)
  /\ rq.pc \in {"generate", "done"}

\* what the loop of the request did with the record of the given id
FateOf(rq, id) == rq.fate[CHOOSE i \in 1..Len(rq.snap) : rq.snap[i].id = id]

\* C15: a record submitted and then approved is among the candidates of every
\* retrieval that started after the approve completed and in which the
\* embedding of the record's original was obtained; once the approve has
\* completed the record is not in the pending collection.
C15_Original ==
  \A p \in promoted :
    /\ ~InDocs(pending, p.pid)
    /\ \A r \in p.idle :
         ( /\ RetrievalDone(req[r])
           /\ InDocs(req[r].snap, p.aid)
           /\ FateOf(req[r], p.aid) \in {"stored", "embedded", "writeRaised"} )
         => InApproved(req[r], p.aid)

\* C15 (amended): such a retrieval reads the record, does not pass it over as
\* malformed, and has it among its candidates when the embedding of the
\* original was obtained and, if newly computed, its write onto the record
\* was acknowledged; the record is not in the pending collection.
C15_RoundTrip ==
  \A p \in promoted :
    /\ ~InDocs(pending, p.pid)
    /\ \A r \in p.idle :
         RetrievalDone(req[r]) =>
           /\ InDocs(req[r].snap, p.aid)
           /\ FateOf(req[r], p.aid) # "malformed"
           /\ FateOf(req[r], p.aid) \in {"stored", "embedded"}
                => InApproved(req[r], p.aid)

\* the approved record was embedded, written and ranked by a later request
C15_Witness ==
  \E p \in promoted : \E r \in p.idle :
    /\ RetrievalDone(req[r])
    /\ FateOf(req[r], p.aid) = "embedded"
    /\ InTopK(req[r], p.aid)
    /\ req[r].response.status = 200

(***************************************************************************)
(* Claims on the ranking section                                           *)
(***************************************************************************)
RankDone == rk_pc = "done"

Originals(s) == [i \in 1..Len(s) |-> s[i].original]

\* C1: with K = 5 and minScore = 0.3 the selected examples are at most K and
\* every one of them has a cosine score strictly greater than 0.3.
C1_AtMostKAboveMin ==
  (RankDone /\ rk_K = TopK /\ rk_min = MinScore) =>
     /\ Len(rk_topK) <= 5
     /\ \A i \in 1..Len(rk_topK) :
          /\ rk_topK[i].score = cosineSimilarity(rk_query, rk_topK[i].embedding)
          /\ 10 * rk_topK[i].score.n > 3 * rk_topK[i].score.d

\* more candidates than K, all above the floor: truncation decides
C1_Witness ==
  /\ RankDone /\ rk_K = TopK /\ rk_min = MinScore
  /\ Len(rk_approved) > TopK
  /\ Len(rk_topK) = TopK
  /\ \E i \in 1..Len(rk_scored) : ~ScoreGT(rk_scored[i].score, MinScore)

IsABC ==
  /\ RankDone
  /\ rk_query = EmbedValues("q")
  /\ Originals(rk_approved) = <<"a", "b", "c">>
  /\ rk_K = 2
  /\ rk_min = MinScore

\* C8 as stated: scores 0.9, 0.2, 0.8 in store order with K = 2 and
\* minScore = 0.3 give ["a"] only.
C8_Original == IsABC => Originals(rk_topK) = <<"a">>

\* C8 amended: the scores are 0.9, 0.2, 0.8 and the result is ["a", "c"]:
\* the sort puts c second, b is the record cut off by truncation.
C8_SortedPairReturned ==
  IsABC =>
    /\ 10 * rk_scored[1].score.n = 9 * rk_scored[1].score.d
    /\ 10 * rk_scored[2].score.n = 2 * rk_scored[2].score.d
    /\ 10 * rk_scored[3].score.n = 8 * rk_scored[3].score.d
    /\ Originals(rk_topK) = <<"a", "c">>

C8_Witness == IsABC /\ Len(rk_topK) = 2

\* position of x in the descending order with ties in store order
RankOf(x, scored) ==
  1 + Cardinality({j \in 1..Len(scored) :
        \/ ScoreGT(scored[j].score, x.score)
        \/ ScoreEQ(scored[j].score, x.score) /\ scored[j].id < x.id})

\* C9: the result is the records of descending rank 1..K whose score is above
\* minScore, in rank order; a record ranked after K is never returned.
C9_TruncateThenFilter ==
  RankDone =>
    /\ \A j \in 1..Len(rk_scored) :
         (\E i \in 1..Len(rk_topK) : rk_topK[i] = rk_scored[j])
           <=> (/\ RankOf(rk_scored[j], rk_scored) <= rk_K
                /\ rk_scored[j].score.n * rk_min.d > rk_min.n * rk_scored[j].score.d)
    /\ \A i \in 1..Len(rk_topK) : \E j \in 1..Len(rk_scored) : rk_topK[i] = rk_scored[j]
    /\ \A i, j \in 1..Len(rk_topK) :
         i < j => RankOf(rk_topK[i], rk_scored) < RankOf(rk_topK[j], rk_scored)

\* the filter empties part of the first K while more records exist
C9_Witness ==
  /\ RankDone
  /\ rk_K > 0
  /\ Len(rk_approved) > rk_K
  /\ Len(rk_topK) > 0
  /\ Len(rk_topK) < rk_K

\* C10: the ranked list is in non-increasing score order and records of equal
\* score keep the order in which the store returned them.
C10_StableDescending ==
  rk_pc \in {"select", "done"} =>
    /\ Len(rk_sorted) = Len(rk_scored)
    /\ \A j \in 1..Len(rk_scored) : \E i \in 1..Len(rk_sorted) : rk_sorted[i] = rk_scored[j]
    /\ \A i, j \in 1..Len(rk_sorted) :
         i < j =>
           /\ rk_sorted[i].score.n * rk_sorted[j].score.d
                >= rk_sorted[j].score.n * rk_sorted[i].score.d
           /\ (rk_sorted[i].score.n * rk_sorted[j].score.d
                 = rk_sorted[j].score.n * rk_sorted[i].score.d)
                => rk_sorted[i].id < rk_sorted[j].id

\* the sort moved records and two of them tie
C10_Witness ==
  /\ rk_pc = "done"
  /\ rk_sorted # rk_scored
  /\ \E i, j \in 1..Len(rk_sorted) :
       /\ i < j
       /\ ScoreEQ(rk_sorted[i].score, rk_sorted[j].score)
       /\ rk_sorted[j].id > rk_sorted[i].id + 1

\* C22: on the list sorted by descending score, truncating to K and then
\* filtering by score > minScore gives the same list as filtering first and
\* truncating to K afterwards, for every K and every minScore.
C22_PoliciesAgree ==
  RankDone =>
    /\ rk_topK = FilterAbove(Slice(rk_sorted, rk_K), rk_min)
    /\ rk_topK = Slice(FilterAbove(rk_sorted, rk_min), rk_K)

\* the truncation cuts records off and the filter removes records of the rest
C22_Witness ==
  /\ RankDone
  /\ Len(rk_topK) > 0
  /\ Len(rk_topK) < rk_K
  /\ rk_K < Len(rk_sorted)

\* the approved records that are copies of the pending record created at t
CopiesOf(t) == {k \in 1..Len(store) : store[k].createdAt = t}

\* C23: however calls of approve for the same pending id interleave, at most
\* one approved record is created for that pending record, and at most one
\* of the calls answers ok.
C23_Original ==
  faults = 0 =>
    /\ \A t \in 1..MaxSubmits : Cardinality(CopiesOf(t)) <= 1
    /\ \A a, b \in Aps :
         ~( /\ a # b /\ ap[a].id = ap[b].id
            /\ ap[a].response.status = 200 /\ ap[b].response.status = 200 )

(***************************************************************************)
(* Claims on cosineSimilarity                                              *)
(***************************************************************************)
\* C28: cosineSimilarity(a, b) is the number 0 whenever a or b has magnitude
\* 0, the empty vector included, and its result is always a number: no
\* quotient by zero is taken.
C28_ZeroMagnitude ==
  cs_pc = "done" =>
    /\ cs_out.k = "num"
    /\ (magnitudeFl(cs_a).m = 0 \/ magnitudeFl(cs_b).m = 0) => cs_out = FlZero

\* the empty vector against a non-zero vector, and a zero vector with
\* components against a non-zero vector, have been given 0
C28_Witness ==
  /\ cs_pc = "done" /\ cs_out = FlZero
  /\ cs_a \in {<<>>, <<0, 0>>}
  /\ magnitudeFl(cs_b).m # 0

\* C29: cosineSimilarity(v, v) equals 1 for every non-zero vector v.
C29_Original ==
  (cs_pc = "done" /\ cs_a = cs_b /\ magnitudeFl(cs_a).m # 0) => cs_out = FlOne

====
